---- MODULE Spec2Model ----
(***************************************************************************)
(* CareerPilot edge worker (Cloudflare Worker BFF): /api/plan and          *)
(* /api/chatbot handlers with KV cache, per-client rate limit and CORS,    *)
(* plus the Next.js /api/chatbot route of the web application, its         *)
(* ChatWidget component and the submit handlers of its quiz pages.         *)
(*                                                                         *)
(* A handler invocation lives in a slot; every await that touches the KV   *)
(* store or the collaborator is one step, so handlers and the background   *)
(* tasks registered with ctx.waitUntil interleave as they do in the        *)
(* runtime.  KV entries carry their expiry time; the clock advances by     *)
(* Tick.                                                                   *)
(***************************************************************************)
EXTENDS Integers, Sequences, FiniteSets, Bags, TLC

VARIABLES
    now,        \* clock, in seconds
    ticks,      \* number of clock advances so far
    kvOk,       \* TRUE while KV operations succeed; FALSE: get/put reject
    rate,       \* env.RATE_LIMIT : key -> [val, exp]
    cache,      \* env.ROADMAP_CACHE : key -> [val, exp]
    slots,      \* handler invocations: slot -> position, locals, response
    bg,         \* bag of tasks registered with ctx.waitUntil
    nreq,       \* number of requests received so far
    hist,       \* history of the run (collaborator calls per client, ...)
    widget,     \* the ChatWidget component of the web application
    page        \* the quiz page of the web application (HomePage or QuizPage)

\* the state of the worker and of its environment
worker == <<now, ticks, kvOk, rate, cache, slots, bg, nreq, hist>>

vars == <<now, ticks, kvOk, rate, cache, slots, bg, nreq, hist, widget, page>>

----------------------------------------------------------------------------
(* Program constants *)

MaxRequestsPerHour == 10
RateLimitTtl == 3600
PlanCacheTtl == 604800
ChatCacheTtl == 3600

(* Bounds of the model *)

MaxReqs == 2        \* requests received in a run of Spec
MaxRateReqs == 12   \* requests received in a run of SpecRate
MaxChatReqs == 2    \* requests received in a run of SpecChat
MaxRouteReqs == 2   \* requests received in a run of SpecRoute
MaxFailReqs == 2    \* requests received in a run of SpecFail
MaxCacheReqs == 3   \* requests received in a run of SpecChatCache
MaxKeyReqs == 2     \* requests received in a run of SpecKey
MaxHealthReqs == 2  \* requests received in a run of SpecHealth
MaxFireReqs == 2    \* requests received in a run of SpecFire
MaxContextReqs == 2 \* requests received in a run of SpecContext
MaxIdentityReqs == 2 \* requests received in a run of SpecIdentity
MaxSends == 3       \* messages the ChatWidget accepts in a run of SpecWidget
MaxSubmits == 2     \* quiz submissions started in a run of SpecQuiz
MaxTicks == 1       \* clock advances in a run

----------------------------------------------------------------------------
(* Values *)

Absent == "<undefined>"         \* JS undefined: a missing header or field
EmptyMap == [k \in {} |-> 0]    \* an empty KV namespace, an empty JSON object
KvNull == <<>>                  \* kv.get of a missing or expired key

HalfWindow == RateLimitTtl \div 2

\* decimal digits of a non-negative integer, most significant first
RECURSIVE toString(_)
toString(n) == IF n < 10 THEN <<n>> ELSE toString(n \div 10) \o <<n % 10>>

RECURSIVE parseInt(_)
parseInt(s) ==
    IF Len(s) = 1 THEN s[1]
    ELSE 10 * parseInt(SubSeq(s, 1, Len(s) - 1)) + s[Len(s)]

----------------------------------------------------------------------------
(* The KV store: get honours expiry, put sets expiry to now + expirationTtl *)

KvGet(kv, key) ==
    IF key \in DOMAIN kv /\ now < kv[key].exp THEN kv[key].val ELSE KvNull

KvPut(kv, key, val, ttl) ==
    (key :> [val |-> val, exp |-> now + ttl]) @@ kv

KvExpire(kv, t) ==
    [k \in {x \in DOMAIN kv : t < kv[x].exp} |-> kv[k]]

----------------------------------------------------------------------------
(* JSON *)

\* quiz_data is a JSON object: a sequence of <<key, value>> members in the
\* order the client wrote them
Member(obj, k) ==
    LET idx == {i \in 1..Len(obj) : obj[i][1] = k}
    IN  IF idx = {} THEN Absent
        ELSE obj[CHOOSE i \in idx : \A j \in idx : j <= i][2]

\* JSON.stringify of an object keeps the member order
RECURSIVE JsonStringifyObj(_)
JsonStringifyObj(obj) ==
    IF obj = <<>> THEN <<>>
    ELSE <<obj[1][1], ":", obj[1][2], ",">> \o JsonStringifyObj(Tail(obj))

\* JSON.stringify / JSON.parse of a roadmap value ("null" is JSON null)
JsonStringify(v) == <<"json", v>>
JsonParses(text) == text[1] = "json"
JsonParse(text) == text[2]

\* SHA-256 rendered as hex: a collision-free digest of its input
Sha256Hex(data) == <<"sha256">> \o data

\* mutant: only the career is hashed
hashQuizData_careerOnly(quizData) ==
    Sha256Hex(<<Member(quizData, "career")>>)

\* mutant: the members are hashed whatever their order
hashQuizData_members(quizData) ==
    Sha256Hex(<<{quizData[i] : i \in 1..Len(quizData)}>>)

hashQuizData(quizData) == Sha256Hex(JsonStringifyObj(quizData))

hashString(str) == Sha256Hex(str)

Truthy(v) == v # Absent /\ v # "" /\ v # "null"

----------------------------------------------------------------------------
(* Responses *)

CorsBase ==
    ("Access-Control-Allow-Origin" :> "*")
    @@ ("Access-Control-Allow-Methods" :> "GET, POST, OPTIONS")
    @@ ("Access-Control-Allow-Headers" :> "Content-Type")

JsonHeader == ("Content-Type" :> "application/json")

corsHeaders(additional) == additional @@ CorsBase

Response(status, headers, body) ==
    [status |-> status, headers |-> headers, body |-> body]

ErrorBody(msg) == [success |-> FALSE, error |-> msg]

RateLimited ==
    Response(429, corsHeaders(JsonHeader),
             ErrorBody("Rate limit exceeded. Please try again later."))

InvalidQuiz ==
    Response(400, corsHeaders(JsonHeader), ErrorBody("Invalid quiz data"))

AgentFailed ==
    Response(500, corsHeaders(JsonHeader),
             ErrorBody("Failed to generate roadmap. Please try again."))

\* mutant: the catch block forgets the CORS headers
InternalError_noCors ==
    Response(500, JsonHeader, ErrorBody("Internal server error"))

InternalError ==
    Response(500, corsHeaders(JsonHeader), ErrorBody("Internal server error"))

\* JSON.stringify drops a member whose value is undefined
PlanOk(roadmap, isCached) ==
    Response(200, corsHeaders(JsonHeader),
             IF roadmap = Absent
             THEN [success |-> TRUE, cached |-> isCached]
             ELSE [success |-> TRUE, roadmap |-> roadmap, cached |-> isCached])

----------------------------------------------------------------------------
(* Rate limiter *)

RateKey(clientIP) == <<"ratelimit:", clientIP>>

\* mutant: the rate check never limits
checkRateLimit_never(kv, clientIP) == FALSE

\* mutant: the ceiling is compared with > instead of >=
checkRateLimit_gt(kv, clientIP) ==
    LET current == KvGet(kv, RateKey(clientIP))
    IN  IF current = KvNull THEN FALSE
        ELSE parseInt(current) > MaxRequestsPerHour

checkRateLimit(kv, clientIP) ==
    LET current == KvGet(kv, RateKey(clientIP))
    IN  IF current = KvNull THEN FALSE
        ELSE parseInt(current) >= MaxRequestsPerHour

\* the count incrementRateLimit writes after reading `current`
incrementedCount(current) ==
    IF current = KvNull THEN 1 ELSE parseInt(current) + 1

\* mutant: every request is attributed to 'unknown'
clientIPOf_unknown(request) == "unknown"

clientIPOf(request) ==
    IF request.ip = Absent \/ request.ip = "" THEN "unknown" ELSE request.ip

----------------------------------------------------------------------------
(* Handler invocations *)

Slots == {"h1", "h2"}

Idle == [pc |-> "idle"]

NoCall == [kind |-> "none"]

\* a handler invocation that has just received request rq: arr numbers the
\* requests in order of arrival
Invocation(route, rq) ==
    [pc |-> "start", route |-> route, req |-> rq, ip |-> clientIPOf(rq),
     key |-> <<>>, up |-> NoCall, resp |-> Absent,
     arr |-> nreq + 1, fin |-> 0, finAt |-> 0]

\* the invocation returns response r, when `count` requests have arrived
Return(inv, r, count) ==
    [inv EXCEPT !.pc = "done", !.resp = r, !.fin = count, !.finAt = now]

\* mutant: every HTTP answer counts as ok
UpOk_anyHttp(up) == up.kind = "http"

\* response.ok
UpOk(up) == up.kind = "http" /\ up.status >= 200 /\ up.status <= 299

\* ctx.waitUntil tasks
PutTask(ns, key, val, ttl) ==
    [t |-> "put", ns |-> ns, key |-> key, val |-> val, ttl |-> ttl]

IncTask(clientIP) ==
    [t |-> "inc", ns |-> "rate", key |-> RateKey(clientIP), val |-> <<>>,
     ttl |-> RateLimitTtl]

\* mutant: every task is registered twice
Spawn_twice(tasks) == bg (+) SetToBag(tasks) (+) SetToBag(tasks)

Spawn(tasks) == bg (+) SetToBag(tasks)

Retire(task) == bg (-) SetToBag({task})

\* what a KV put does when handed the value undefined
PutUndefinedModes == {"throw", "reject", "coerce"}

\* no handler is running and no background task is pending
Quiet ==
    /\ \A s \in Slots : slots[s].pc \in {"idle", "done"}
    /\ bg = EmptyBag

CountCall(h, clientIP) ==
    [h EXCEPT !.calls =
        (clientIP :> (IF clientIP \in DOMAIN h.calls
                      THEN h.calls[clientIP] ELSE 0) + 1) @@ h.calls]

----------------------------------------------------------------------------
(* POST /api/plan *)

PlanCacheKey(quizData) == <<"roadmap:">> \o hashQuizData(quizData)

QuizOf(body) ==
    IF "quiz_data" \in DOMAIN body.obj THEN body.obj.quiz_data ELSE Absent

\* mutant: the budget is not checked
InvalidQuizData_careerOnly(quizData) ==
    \/ quizData = Absent
    \/ Member(quizData, "career") \in {Absent, ""}

\* !quizData?.career || !quizData?.budget
InvalidQuizData(quizData) ==
    \/ quizData = Absent
    \/ Member(quizData, "career") \in {Absent, ""}
    \/ Member(quizData, "budget") \in {Absent, ""}

\* lines 516-546: rate check, body parse, validation, cache key
handlePlanRequest(s, rq) ==
    /\ slots[s].pc \in {"idle", "done"}
    /\ rq.method = "POST" /\ rq.path = "/api/plan"
    /\ LET inv == Invocation("plan", rq)
           out(r) == [slots EXCEPT ![s] = Return(inv, r, nreq + 1)]
           limited == kvOk /\ checkRateLimit(rate, inv.ip)
           wellFormed == rq.body.t = "object"
                         /\ ~InvalidQuizData(QuizOf(rq.body))
       IN  /\ slots' =
                IF ~kvOk THEN out(InternalError)
                ELSE IF limited THEN out(RateLimited)
                ELSE IF rq.body.t # "object" THEN out(InternalError)
                ELSE IF InvalidQuizData(QuizOf(rq.body)) THEN out(InvalidQuiz)
                ELSE [slots EXCEPT ![s] =
                        [inv EXCEPT !.pc = "cache",
                                    !.key = PlanCacheKey(QuizOf(rq.body))]]
           /\ hist' = [hist EXCEPT !.orderly =
                          /\ @ /\ Quiet /\ kvOk /\ wellFormed
                          /\ KvGet(cache, PlanCacheKey(QuizOf(rq.body))) = KvNull]
    /\ nreq' = nreq + 1
    /\ UNCHANGED <<now, ticks, kvOk, rate, cache, bg, widget, page>>

\* lines 548-561: cache lookup
handlePlanRequest_cache(s) ==
    /\ slots[s].pc = "cache" /\ slots[s].route = "plan"
    /\ LET inv == slots[s]
           text == KvGet(cache, inv.key)
           out(r) == [slots EXCEPT ![s] = Return(inv, r, nreq)]
           miss == [slots EXCEPT ![s] = [inv EXCEPT !.pc = "fetch"]]
       IN  slots' =
             IF ~kvOk THEN out(InternalError)
             ELSE IF text = KvNull THEN miss
             ELSE IF ~JsonParses(text) THEN out(InternalError)
             ELSE IF Truthy(JsonParse(text))
                  THEN out(PlanOk(JsonParse(text), TRUE))
             ELSE miss
    /\ UNCHANGED <<now, ticks, kvOk, rate, cache, bg, nreq, hist, widget, page>>

RoadmapOf(up) ==
    IF "roadmap" \in DOMAIN up.body.obj THEN up.body.obj.roadmap ELSE Absent

\* lines 563-602: collaborator call, background writes, response
handlePlanRequest_fetch(s, up, mode) ==
    /\ slots[s].pc = "fetch" /\ slots[s].route = "plan"
    /\ LET inv == [slots[s] EXCEPT !.up = up]
           out(r) == [slots EXCEPT ![s] = Return(inv, r, nreq)]
           put(val) == PutTask("cache", inv.key, val, PlanCacheTtl)
           good == UpOk(up) /\ up.body.t = "object"
       IN  /\ IF up.kind = "unreachable"
                THEN slots' = out(InternalError) /\ bg' = bg
              ELSE IF ~UpOk(up)
                THEN slots' = out(AgentFailed) /\ bg' = bg
              ELSE IF up.body.t # "object"
                THEN slots' = out(InternalError) /\ bg' = bg
              ELSE IF RoadmapOf(up) = Absent /\ mode = "throw"
                THEN slots' = out(InternalError) /\ bg' = bg
              ELSE IF RoadmapOf(up) = Absent /\ mode = "reject"
                THEN /\ slots' = out(PlanOk(Absent, FALSE))
                     /\ bg' = Spawn({IncTask(inv.ip)})
              ELSE IF RoadmapOf(up) = Absent
                THEN /\ slots' = out(PlanOk(Absent, FALSE))
                     /\ bg' = Spawn({put(<<"raw", "undefined">>),
                                     IncTask(inv.ip)})
              ELSE /\ slots' = out(PlanOk(RoadmapOf(up), FALSE))
                   /\ bg' = Spawn({put(JsonStringify(RoadmapOf(up))),
                                   IncTask(inv.ip)})
           /\ hist' = [CountCall(hist, inv.ip) EXCEPT !.orderly =
                          @ /\ good /\ Truthy(RoadmapOf(up))]
    /\ UNCHANGED <<now, ticks, kvOk, rate, cache, nreq, widget, page>>

----------------------------------------------------------------------------
(* POST /api/chatbot of the worker *)

\* text values of a chat body are sequences of characters
Has(obj, k) == k \in DOMAIN obj

\* obj.k || ''
OrEmpty(obj, k) == IF Has(obj, k) THEN obj[k] ELSE <<>>

RECURSIVE TrimStart(_)
TrimStart(str) ==
    IF str # <<>> /\ Head(str) = " " THEN TrimStart(Tail(str)) ELSE str

RECURSIVE TrimEnd(_)
TrimEnd(str) ==
    IF str # <<>> /\ str[Len(str)] = " "
    THEN TrimEnd(SubSeq(str, 1, Len(str) - 1)) ELSE str

Trim(str) == TrimEnd(TrimStart(str))

\* !question || question.trim().length === 0
NoQuestion(obj) == ~Has(obj, "question") \/ Len(Trim(obj.question)) = 0

ChatCacheKey(obj) ==
    <<"chatbot:">> \o hashString(obj.question \o OrEmpty(obj, "career")
                                              \o OrEmpty(obj, "path"))

QuestionRequired ==
    Response(400, corsHeaders(JsonHeader), ErrorBody("Question is required"))

BackendFailed ==
    Response(500, corsHeaders(JsonHeader),
             ErrorBody("Failed to generate response"))

ChatOk(answer, isCached) ==
    Response(200, corsHeaders(JsonHeader),
             IF answer = Absent
             THEN [success |-> TRUE, cached |-> isCached]
             ELSE [success |-> TRUE, answer |-> answer, cached |-> isCached])

\* data.answer || data.response
AnswerOf(up) ==
    LET data == up.body.obj
    IN  IF Has(data, "answer") /\ data.answer # "" THEN data.answer
        ELSE IF Has(data, "response") THEN data.response
        ELSE Absent

\* lines 701-732: body parse, validation, cache key, cache lookup
handleChatbotRequest(s, rq) ==
    /\ slots[s].pc \in {"idle", "done"}
    /\ rq.method = "POST" /\ rq.path = "/api/chatbot"
    /\ LET inv == Invocation("chat", rq)
           out(r) == [slots EXCEPT ![s] = Return(inv, r, nreq + 1)]
           key == ChatCacheKey(rq.body.obj)
           text == KvGet(cache, key)
       IN  slots' =
             IF rq.body.t # "object" THEN out(InternalError)
             ELSE IF NoQuestion(rq.body.obj) THEN out(QuestionRequired)
             ELSE IF ~kvOk THEN out(InternalError)
             ELSE IF text # KvNull /\ text[2] # ""
                  THEN [slots EXCEPT ![s] =
                          Return([inv EXCEPT !.key = key],
                                 ChatOk(text[2], TRUE), nreq + 1)]
             ELSE [slots EXCEPT ![s] = [inv EXCEPT !.pc = "fetch", !.key = key]]
    /\ nreq' = nreq + 1
    /\ UNCHANGED <<now, ticks, kvOk, rate, cache, bg, hist, widget, page>>

\* mutant: a chat answer counts against the rate limit, as line 594 does for
\* a roadmap
handleChatbotRequest_fetch_counted(s, up, mode) ==
    /\ slots[s].pc = "fetch" /\ slots[s].route = "chat"
    /\ LET inv == [slots[s] EXCEPT !.up = up]
           out(r) == [slots EXCEPT ![s] = Return(inv, r, nreq)]
           put(val) == PutTask("cache", inv.key, val, ChatCacheTtl)
       IN  IF up.kind = "unreachable"
             THEN slots' = out(InternalError) /\ bg' = bg
           ELSE IF ~UpOk(up)
             THEN slots' = out(BackendFailed) /\ bg' = bg
           ELSE IF up.body.t # "object"
             THEN slots' = out(InternalError) /\ bg' = bg
           ELSE IF AnswerOf(up) = Absent
             THEN /\ slots' = out(ChatOk(Absent, FALSE))
                  /\ bg' = Spawn({IncTask(inv.ip)})
           ELSE /\ slots' = out(ChatOk(AnswerOf(up), FALSE))
                /\ bg' = Spawn({put(<<"raw", AnswerOf(up)>>), IncTask(inv.ip)})
    /\ UNCHANGED <<now, ticks, kvOk, rate, cache, nreq, hist, widget, page>>

\* lines 734-772: backend call, background write, response
handleChatbotRequest_fetch(s, up, mode) ==
    /\ slots[s].pc = "fetch" /\ slots[s].route = "chat"
    /\ LET inv == [slots[s] EXCEPT !.up = up]
           out(r) == [slots EXCEPT ![s] = Return(inv, r, nreq)]
           put(val) == PutTask("cache", inv.key, val, ChatCacheTtl)
       IN  IF up.kind = "unreachable"
             THEN slots' = out(InternalError) /\ bg' = bg
           ELSE IF ~UpOk(up)
             THEN slots' = out(BackendFailed) /\ bg' = bg
           ELSE IF up.body.t # "object"
             THEN slots' = out(InternalError) /\ bg' = bg
           ELSE IF AnswerOf(up) = Absent /\ mode = "throw"
             THEN slots' = out(InternalError) /\ bg' = bg
           ELSE IF AnswerOf(up) = Absent /\ mode = "reject"
             THEN slots' = out(ChatOk(Absent, FALSE)) /\ bg' = bg
           ELSE IF AnswerOf(up) = Absent
             THEN /\ slots' = out(ChatOk(Absent, FALSE))
                  /\ bg' = Spawn({put(<<"raw", "undefined">>)})
           ELSE /\ slots' = out(ChatOk(AnswerOf(up), FALSE))
                /\ bg' = Spawn({put(<<"raw", AnswerOf(up)>>)})
    /\ UNCHANGED <<now, ticks, kvOk, rate, cache, nreq, hist, widget, page>>

----------------------------------------------------------------------------
(* POST /api/chatbot of the web application (Next.js route) *)

NextJson(status, body) == Response(status, JsonHeader, body)

\* error.message of what the route's try block can throw; the message of a
\* failed JSON parse quotes the text that did not parse
ParseErrorMessage(text) == <<"Unexpected token", text>>
FetchErrorMessage == <<"fetch failed">>
StatusErrorMessage(status) == <<"Agent server returned">> \o toString(status)

RouteFailed(message) ==
    NextJson(500, [error |-> "Failed to generate response",
                   details |-> message])

MissingFields ==
    NextJson(400, [error |-> "Missing required fields: question and career"])

\* !question || !career
MissingQuestionOrCareer(obj) ==
    \/ OrEmpty(obj, "question") = <<>>
    \/ OrEmpty(obj, "career") = <<>>

\* the whole route: it keeps no state and awaits only the agent server
POST(s, rq, up) ==
    /\ slots[s].pc \in {"idle", "done"}
    /\ rq.method = "POST" /\ rq.path = "/api/chatbot"
    /\ LET inv == Invocation("next", rq)
           out(u, r) ==
               [slots EXCEPT ![s] = Return([inv EXCEPT !.up = u], r, nreq + 1)]
       IN  slots' =
             IF rq.body.t # "object"
               THEN out(NoCall, RouteFailed(ParseErrorMessage(rq.body.text)))
             ELSE IF MissingQuestionOrCareer(rq.body.obj)
               THEN out(NoCall, MissingFields)
             ELSE IF up.kind = "unreachable"
               THEN out(up, RouteFailed(FetchErrorMessage))
             ELSE IF ~UpOk(up)
               THEN out(up, RouteFailed(StatusErrorMessage(up.status)))
             ELSE IF up.body.t # "object"
               THEN out(up, RouteFailed(ParseErrorMessage(up.body.text)))
             ELSE IF Has(up.body.obj, "response")
               THEN out(up, NextJson(200, [answer |-> up.body.obj.response]))
             ELSE out(up, NextJson(200, EmptyMap))
    /\ nreq' = nreq + 1
    /\ UNCHANGED <<now, ticks, kvOk, rate, cache, bg, hist, widget, page>>

----------------------------------------------------------------------------
(* The router (fetch) and the routes that touch neither store nor collaborator *)

NoBody == [t |-> "none"]    \* no body: new Response(null, ...), a GET request

\* the Content-Type a Response gets from a string body when none is given
TextHeader == ("Content-Type" :> "text/plain;charset=UTF-8")

\* mutant: the status is left to its default
handleCORS_defaultStatus == Response(200, corsHeaders(EmptyMap), NoBody)

handleCORS == Response(204, corsHeaders(EmptyMap), NoBody)

\* name and category of the entries (the icon member, an emoji, is left out)
Careers ==
    << [name |-> "Mechanical Engineer", category |-> "STEM-Engineering"],
       [name |-> "Electrical Engineer", category |-> "STEM-Engineering"],
       [name |-> "Civil Engineer", category |-> "STEM-Engineering"],
       [name |-> "Software Developer", category |-> "STEM-Technology"],
       [name |-> "Registered Nurse", category |-> "Healthcare"],
       [name |-> "Architect", category |-> "STEM-Architecture"],
       [name |-> "Accountant", category |-> "Business"],
       [name |-> "Data Scientist", category |-> "STEM-Technology"] >>

handleCareersRequest ==
    Response(200, corsHeaders(JsonHeader), [careers |-> Careers])

\* mutant: the health check reports the store's state
Healthy_storeAware ==
    IF kvOk
    THEN Response(200, JsonHeader, [status |-> "healthy", version |-> "1.0.0"])
    ELSE Response(503, JsonHeader, [status |-> "degraded", version |-> "1.0.0"])

Healthy ==
    Response(200, JsonHeader, [status |-> "healthy", version |-> "1.0.0"])

NotFound == Response(404, TextHeader, [text |-> "Not Found"])

\* a route that answers at once
Answer(s, rq, route, r) ==
    /\ slots[s].pc \in {"idle", "done"}
    /\ slots' = [slots EXCEPT ![s] = Return(Invocation(route, rq), r, nreq + 1)]
    /\ nreq' = nreq + 1
    /\ UNCHANGED <<now, ticks, kvOk, rate, cache, bg, hist, widget, page>>

\* lines 476-507
fetch(s, rq) ==
    \/ rq.method = "OPTIONS" /\ Answer(s, rq, "cors", handleCORS)
    \/ rq.method # "OPTIONS" /\ handlePlanRequest(s, rq)
    \/ rq.method # "OPTIONS" /\ handleChatbotRequest(s, rq)
    \/ /\ rq.method = "GET" /\ rq.path = "/api/careers"
       /\ Answer(s, rq, "careers", handleCareersRequest)
    \/ /\ rq.method = "GET" /\ rq.path = "/health"
       /\ Answer(s, rq, "health", Healthy)
    \/ /\ rq.method # "OPTIONS"
       /\ ~(rq.method = "POST" /\ rq.path \in {"/api/plan", "/api/chatbot"})
       /\ ~(rq.method = "GET" /\ rq.path \in {"/api/careers", "/health"})
       /\ Answer(s, rq, "none", NotFound)

----------------------------------------------------------------------------
(* Background tasks *)

\* incrementRateLimit, line 666: read the counter
incrementRateLimit_get(task) ==
    /\ BagIn(task, bg) /\ task.t = "inc"
    /\ bg' = IF kvOk
             THEN Retire(task) (+) SetToBag({PutTask("rate", task.key,
                      toString(incrementedCount(KvGet(rate, task.key))),
                      task.ttl)})
             ELSE Retire(task)
    /\ UNCHANGED <<now, ticks, kvOk, rate, cache, slots, nreq, hist, widget, page>>

\* incrementRateLimit, line 669: write the counter
incrementRateLimit_put(task) ==
    /\ BagIn(task, bg) /\ task.t = "put" /\ task.ns = "rate"
    /\ rate' = IF kvOk THEN KvPut(rate, task.key, task.val, task.ttl) ELSE rate
    /\ bg' = Retire(task)
    /\ UNCHANGED <<now, ticks, kvOk, cache, slots, nreq, hist, widget, page>>

\* mutant: the write is dropped when the task runs
cachePut_dropped(task) ==
    /\ BagIn(task, bg) /\ task.t = "put" /\ task.ns = "cache"
    /\ cache' = cache
    /\ bg' = Retire(task)
    /\ UNCHANGED <<now, ticks, kvOk, rate, slots, nreq, hist, widget, page>>

\* env.ROADMAP_CACHE.put of lines 588 and 761 takes effect
cachePut(task) ==
    /\ BagIn(task, bg) /\ task.t = "put" /\ task.ns = "cache"
    /\ cache' = IF kvOk THEN KvPut(cache, task.key, task.val, task.ttl)
                ELSE cache
    /\ bg' = Retire(task)
    /\ UNCHANGED <<now, ticks, kvOk, rate, slots, nreq, hist, widget, page>>

----------------------------------------------------------------------------
(* Environment *)

\* time passes; KV drops the entries whose expiry is reached
Tick(d) ==
    /\ ticks < MaxTicks
    /\ now' = now + d
    /\ ticks' = ticks + 1
    /\ rate' = KvExpire(rate, now + d)
    /\ cache' = KvExpire(cache, now + d)
    /\ UNCHANGED <<kvOk, slots, bg, nreq, hist, widget, page>>

KvFail ==
    /\ kvOk /\ kvOk' = FALSE
    /\ UNCHANGED <<now, ticks, rate, cache, slots, bg, nreq, hist, widget, page>>

KvRecover ==
    /\ ~kvOk /\ kvOk' = TRUE
    /\ UNCHANGED <<now, ticks, rate, cache, slots, bg, nreq, hist, widget, page>>

----------------------------------------------------------------------------
(* Inputs *)

Q1 == << <<"career", "Nurse">>, <<"budget", "low">> >>
NoBudget == << <<"career", "Nurse">> >>
EmptyCareer == << <<"career", "">>, <<"budget", "low">> >>

Garbage == [t |-> "text", text |-> "not json"]
JsonNull == [t |-> "null"]
Json(obj) == [t |-> "object", obj |-> obj]
Text(x) == [t |-> "text", text |-> x]

ClientA == "10.0.0.1"

PlanPost(ip, body) ==
    [method |-> "POST", path |-> "/api/plan", ip |-> ip, body |-> body]

PlanRequests ==
    {PlanPost(ClientA, Json([quiz_data |-> Q1]))}

Unreachable == [kind |-> "unreachable"]
Http(status, statusText, body) ==
    [kind |-> "http", status |-> status, statusText |-> statusText,
     body |-> body]

PlanUpstreams ==
    {Unreachable,
     Http(503, "Service Unavailable", Json([detail |-> "quota exceeded"]))}
    \cup {Http(200, "OK", b) :
            b \in {Text("<html>"), Json(EmptyMap), Json([roadmap |-> "null"]),
                   Json([roadmap |-> "R1"]), Json([roadmap |-> "R2"])}}

\* SpecRate: one client that asks for a roadmap nobody has generated yet, or
\* for the first one again, or sends an unusable body
Towns == <<"t1", "t2", "t3", "t4", "t5", "t6", "t7", "t8", "t9", "t10",
           "t11", "t12", "t13", "t14", "t15", "t16">>

QuizN(k) == Q1 \o << <<"location", Towns[k]>> >>

Generated ==
    {k \in 1..Len(Towns) :
        \/ PlanCacheKey(QuizN(k)) \in DOMAIN cache
        \/ \E task \in BagToSet(bg) :
              task.ns = "cache" /\ task.key = PlanCacheKey(QuizN(k))}

RateRequests ==
    {PlanPost(ClientA, b) :
        b \in {Json([quiz_data |-> QuizN(Cardinality(Generated) + 1)]),
               Json([quiz_data |-> QuizN(1)]),
               Json([quiz_data |-> NoBudget]), Json([quiz_data |-> EmptyCareer]),
               Json(EmptyMap), JsonNull, Garbage}}

RateUpstreams ==
    {Http(503, "Service Unavailable", Text("quota exceeded")),
     Http(200, "OK", Json([roadmap |-> "R1"]))}

\* chat
ChatPost(body) ==
    [method |-> "POST", path |-> "/api/chatbot", ip |-> ClientA, body |-> body]

Hi == <<"h", "i">>

ChatRequests ==
    {ChatPost(Json([question |-> Hi, career |-> <<"N">>])),
     ChatPost(Json([question |-> <<" ">>, career |-> <<"N">>])),
     ChatPost(Garbage)}

FailingUpstreams ==
    {Unreachable,
     Http(503, "Service Unavailable", Text("quota exceeded")),
     Http(503, "Busy", Text("stack trace")),
     Http(200, "OK", Text("<html>")),
     Http(200, "OK", Text("Traceback"))}

ChatUpstreams ==
    FailingUpstreams
    \cup {Http(200, "OK", Json([answer |-> "A1"])), Http(200, "OK", Json(EmptyMap))}

RouteUpstreams ==
    FailingUpstreams
    \cup {Http(200, "OK", Json([response |-> "A1"])), Http(200, "OK", Json(EmptyMap))}

LeakPlanUpstreams ==
    FailingUpstreams \cup {Http(200, "OK", Json([roadmap |-> "R1"]))}

----------------------------------------------------------------------------
(* ChatWidget (components): messages, input, isLoading; `pending` holds the
   fetches of handleSendMessage that have not settled *)

Message(role, content) == [role |-> role, content |-> content]

Greeting == Message("assistant", "Hi! I'm your CareerPilot AI assistant.")

FallbackText == "Sorry, I couldn't generate a response. Please try again."
ChatErrorText == "Sorry, I encountered an error. Please try again later."

ChatWidgetMounted ==
    [messages |-> <<Greeting>>, input |-> <<>>, isLoading |-> FALSE,
     pending |-> <<>>]

\* s without its i-th element
Without(s, i) == SubSeq(s, 1, i - 1) \o SubSeq(s, i + 1, Len(s))

\* onChange of the input, which is disabled while isLoading
setInput(text) ==
    /\ ~widget.isLoading
    /\ widget' = [widget EXCEPT !.input = text]
    /\ UNCHANGED <<worker, page>>

\* lines 332-347: the guard, the user message, the fetch is sent
handleSendMessage(text) ==
    /\ widget' =
         IF Len(Trim(text)) = 0 \/ widget.isLoading THEN widget
         ELSE [widget EXCEPT
                 !.messages = Append(@, Message("user", text)),
                 !.input = <<>>,
                 !.isLoading = TRUE,
                 !.pending = Append(@, text)]
    /\ UNCHANGED <<worker, page>>

handleQuickReply(question) == handleSendMessage(question)

\* data.answer || fallback; response.json() and data.answer may throw
ReplyContent(outcome) ==
    IF outcome.kind = "unreachable" THEN ChatErrorText
    ELSE IF outcome.body.t # "object" THEN ChatErrorText
    ELSE IF Has(outcome.body.obj, "answer") /\ outcome.body.obj.answer # ""
         THEN outcome.body.obj.answer
    ELSE FallbackText

\* mutant: isLoading is reset after the try block instead of in finally, and
\* the catch block rethrows
handleSendMessage_settle_noFinally(i, outcome) ==
    /\ i \in 1..Len(widget.pending)
    /\ widget' = [widget EXCEPT
                    !.messages = Append(@, Message("assistant",
                                                   ReplyContent(outcome))),
                    !.isLoading = (ReplyContent(outcome) = ChatErrorText),
                    !.pending = Without(@, i)]
    /\ UNCHANGED <<worker, page>>

\* lines 345-375: the fetch settles, the assistant message, finally
handleSendMessage_settle(i, outcome) ==
    /\ i \in 1..Len(widget.pending)
    /\ widget' = [widget EXCEPT
                    !.messages = Append(@, Message("assistant",
                                                   ReplyContent(outcome))),
                    !.isLoading = FALSE,
                    !.pending = Without(@, i)]
    /\ UNCHANGED <<worker, page>>

----------------------------------------------------------------------------
(* HomePage.handleQuizSubmit and QuizPage.handleSubmit: loading, error,
   sessionStorage['careerpilot_roadmap'], the route shown, the fetches that
   have not settled, the pending setTimeout, and the number of submissions
   started so far *)

NoItem == <<>>      \* sessionStorage.getItem of a missing key

PageMounted(which, stored) ==
    [which |-> which, loading |-> FALSE, error |-> "", storage |-> stored,
     route |-> IF which = "home" THEN "/" ELSE "/quiz",
     pending |-> <<>>, timers |-> 0, resp |-> NoCall, started |-> 0]

\* lines 14-25 (50-63 of the quiz page): loading, error, the fetch is sent
StartSubmit(quizData) ==
    page' = [page EXCEPT !.loading = TRUE, !.error = "",
                         !.pending = Append(@, quizData),
                         !.started = @ + 1]

\* HomePage renders QuizForm only while loading is false (lines 148, 187)
handleQuizSubmit(quizData) ==
    /\ page.which = "home" /\ page.route = "/"
    /\ ~page.loading
    /\ StartSubmit(quizData)
    /\ UNCHANGED <<worker, widget>>

\* the submit button of QuizPage is disabled while loading (line 357)
handleSubmit(formData) ==
    /\ page.which = "quiz" /\ page.route = "/quiz"
    /\ ~page.loading
    /\ StartSubmit(formData)
    /\ UNCHANGED <<worker, widget>>

\* the message of the error the try block throws, Absent when it throws none
SubmitError(outcome) ==
    IF outcome.kind = "unreachable" THEN "Failed to fetch"
    ELSE IF ~UpOk(outcome) THEN "Failed to generate roadmap"
    ELSE IF outcome.body.t = "text" THEN "Unexpected token"
    ELSE IF outcome.body.t = "null"
         THEN "Cannot read properties of null"
    ELSE IF ~Has(outcome.body.obj, "success") \/ ~outcome.body.obj.success
         THEN IF Has(outcome.body.obj, "error") /\ outcome.body.obj.error # ""
              THEN outcome.body.obj.error
              ELSE "Failed to generate roadmap"
    ELSE IF ~Has(outcome.body.obj, "roadmap")
         THEN "Cannot read properties of undefined"
    ELSE Absent

\* mutant: the roadmap is stored before data.success is looked at
StoredBy_beforeCheck(outcome, stored) ==
    IF outcome.kind = "http" /\ UpOk(outcome) /\ outcome.body.t = "object"
    THEN IF Has(outcome.body.obj, "roadmap")
         THEN JsonStringify(outcome.body.obj.roadmap)
         ELSE <<"raw", "undefined">>
    ELSE stored

\* what setItem has stored when the try block is left
StoredBy(outcome, stored) ==
    IF SubmitError(outcome) = Absent
      THEN JsonStringify(outcome.body.obj.roadmap)
    ELSE IF SubmitError(outcome) = "Cannot read properties of undefined"
      THEN <<"raw", "undefined">>
    ELSE stored

\* lines 27-53 (65-93): the fetch settles; HomePage navigates at once,
\* QuizPage sets a timer
handleQuizSubmit_settle(i, outcome) ==
    /\ i \in 1..Len(page.pending)
    /\ LET failed == SubmitError(outcome) # Absent
       IN  page' = [page EXCEPT
                      !.pending = Without(@, i),
                      !.resp = outcome,
                      !.storage = StoredBy(outcome, @),
                      !.error = IF failed THEN SubmitError(outcome) ELSE @,
                      !.loading = IF failed THEN FALSE ELSE @,
                      !.route = IF ~failed /\ page.which = "home"
                                THEN "/roadmap" ELSE @,
                      !.timers = IF ~failed /\ page.which = "quiz"
                                 THEN @ + 1 ELSE @]
    /\ UNCHANGED <<worker, widget>>

\* lines 86-88 of the quiz page: the timer fires
setTimeout ==
    /\ page.timers > 0
    /\ page' = [page EXCEPT !.timers = @ - 1, !.route = "/roadmap"]
    /\ UNCHANGED <<worker, widget>>

\* the "Try again" button of HomePage (line 179)
setError ==
    /\ page.which = "home" /\ page.route = "/"
    /\ ~page.loading /\ page.error # ""
    /\ page' = [page EXCEPT !.error = ""]
    /\ UNCHANGED <<worker, widget>>

\* inputs of the web application
ChatTexts == {<<>>, <<" ">>, <<"a">>}
QuickReplies == {<<"q">>}

\* what /api/chatbot of the web application answers, and a network failure
WidgetOutcomes ==
    {Unreachable,
     Http(200, "OK", Json([answer |-> "A1"])),
     Http(200, "OK", Json(EmptyMap)),
     Http(500, "Internal Server Error",
          Json([error |-> "Failed to generate response"])),
     Http(502, "Bad Gateway", Text("<html>"))}

\* what POST /api/plan answers, and a network failure
QuizOutcomes ==
    {Unreachable,
     Http(200, "OK", Text("<html>")),
     Http(200, "OK", JsonNull)}
    \cup {Http(200, "OK", Json(b)) :
            b \in {[success |-> TRUE, roadmap |-> "R1", cached |-> FALSE],
                   [success |-> TRUE, roadmap |-> "R2", cached |-> TRUE],
                   [success |-> TRUE, cached |-> FALSE],
                   [success |-> FALSE, error |-> "Pipeline failed"],
                   [success |-> FALSE, error |-> ""]}}
    \cup {Http(st, "Error", Json(b)) :
            st \in {400, 429, 500},
            b \in {ErrorBody("Invalid quiz data"),
                   [success |-> TRUE, roadmap |-> "R1", cached |-> FALSE]}}

----------------------------------------------------------------------------
(* Specifications *)

Init ==
    /\ now = 0
    /\ ticks = 0
    /\ kvOk = TRUE
    /\ rate = EmptyMap
    /\ cache = EmptyMap
    /\ slots = [s \in Slots |-> Idle]
    /\ bg = EmptyBag
    /\ nreq = 0
    /\ hist = [calls |-> EmptyMap, orderly |-> TRUE]
    /\ widget = ChatWidgetMounted
    /\ page = PageMounted("home", NoItem)

\* concurrent plan requests, every collaborator outcome
Next ==
    \/ \E s \in Slots, rq \in PlanRequests :
          nreq < MaxReqs /\ handlePlanRequest(s, rq)
    \/ \E s \in Slots : handlePlanRequest_cache(s)
    \/ \E s \in Slots, up \in PlanUpstreams, mode \in PutUndefinedModes :
          handlePlanRequest_fetch(s, up, mode)
    \/ \E task \in BagToSet(bg) : incrementRateLimit_get(task)
    \/ \E task \in BagToSet(bg) : incrementRateLimit_put(task)
    \/ \E task \in BagToSet(bg) : cachePut(task)
    \/ Tick(PlanCacheTtl)

Spec == Init /\ [][Next]_vars

\* one client whose requests arrive one after the other, each after the
\* background writes of the one before
NextRate ==
    \/ \E rq \in RateRequests :
          /\ nreq < MaxRateReqs
          /\ bg = EmptyBag
          /\ handlePlanRequest("h1", rq)
    \/ handlePlanRequest_cache("h1")
    \/ \E up \in RateUpstreams : handlePlanRequest_fetch("h1", up, "reject")
    \/ \E task \in BagToSet(bg) : incrementRateLimit_get(task)
    \/ \E task \in BagToSet(bg) : incrementRateLimit_put(task)
    \/ \E task \in BagToSet(bg) : cachePut(task)
    \/ \E d \in {HalfWindow, RateLimitTtl} : Tick(d)

SpecRate == Init /\ [][NextRate]_vars

\* the two chat endpoints and the plan endpoint in front of a collaborator
\* that may fail in every way
NextChat ==
    \/ \E s \in Slots, rq \in ChatRequests :
          nreq < MaxChatReqs /\ handleChatbotRequest(s, rq)
    \/ \E s \in Slots, up \in ChatUpstreams, mode \in PutUndefinedModes :
          handleChatbotRequest_fetch(s, up, mode)
    \/ \E s \in Slots, rq \in ChatRequests, up \in RouteUpstreams :
          nreq < MaxChatReqs /\ POST(s, rq, up)
    \/ \E s \in Slots, rq \in PlanRequests :
          nreq < MaxChatReqs /\ handlePlanRequest(s, rq)
    \/ \E s \in Slots : handlePlanRequest_cache(s)
    \/ \E s \in Slots, up \in LeakPlanUpstreams :
          handlePlanRequest_fetch(s, up, "reject")
    \/ \E task \in BagToSet(bg) : incrementRateLimit_get(task)
    \/ \E task \in BagToSet(bg) : incrementRateLimit_put(task)
    \/ \E task \in BagToSet(bg) : cachePut(task)
    \/ Tick(ChatCacheTtl)

SpecChat == Init /\ [][NextChat]_vars

\* every route of the worker, in front of a store that already holds a
\* counter or a roadmap
ClientB == "10.0.0.2"

Req(method, path, ip, body) ==
    [method |-> method, path |-> path, ip |-> ip, body |-> body]

RouteRequests ==
    {Req("OPTIONS", "/api/plan", ClientA, NoBody),
     Req("OPTIONS", "/nowhere", ClientB, NoBody),
     Req("GET", "/health", ClientA, NoBody),
     Req("GET", "/api/careers", ClientA, NoBody),
     Req("GET", "/api/plan", ClientA, NoBody),
     Req("POST", "/health", ClientA, Json(EmptyMap)),
     PlanPost(ClientA, Json([quiz_data |-> Q1])),
     PlanPost(ClientA, Json([quiz_data |-> NoBudget])),
     ChatPost(Json([question |-> Hi, career |-> <<"N">>]))}

RoutePlanUpstreams ==
    RateUpstreams
    \cup {Unreachable, Http(200, "OK", Json([roadmap |-> "null"]))}

RouteChatUpstreams ==
    {Http(503, "Service Unavailable", Text("quota exceeded")),
     Http(200, "OK", Json([answer |-> "A1"]))}

\* a counter as incrementRateLimit leaves it, a roadmap as line 588 stores it
StoredRates ==
    {EmptyMap}
    \cup {RateKey(ClientA) :> [val |-> toString(n), exp |-> RateLimitTtl] :
            n \in {MaxRequestsPerHour - 1, MaxRequestsPerHour}}

StoredCaches ==
    {EmptyMap,
     PlanCacheKey(Q1) :> [val |-> JsonStringify("R1"), exp |-> PlanCacheTtl]}

InitRoute ==
    /\ now = 0
    /\ ticks = 0
    /\ kvOk = TRUE
    /\ rate \in StoredRates
    /\ cache \in StoredCaches
    /\ slots = [s \in Slots |-> Idle]
    /\ bg = EmptyBag
    /\ nreq = 0
    /\ hist = [calls |-> EmptyMap, orderly |-> TRUE]
    /\ widget = ChatWidgetMounted
    /\ page = PageMounted("home", NoItem)

NextRoute ==
    \/ \E s \in Slots, rq \in RouteRequests :
          nreq < MaxRouteReqs /\ fetch(s, rq)
    \/ \E s \in Slots : handlePlanRequest_cache(s)
    \/ \E s \in Slots, up \in RoutePlanUpstreams :
          handlePlanRequest_fetch(s, up, "reject")
    \/ \E s \in Slots, up \in RouteChatUpstreams :
          handleChatbotRequest_fetch(s, up, "reject")
    \/ \E task \in BagToSet(bg) : incrementRateLimit_get(task)
    \/ \E task \in BagToSet(bg) : incrementRateLimit_put(task)
    \/ \E task \in BagToSet(bg) : cachePut(task)
    \/ Tick(RateLimitTtl)

SpecRoute == InitRoute /\ [][NextRoute]_vars

\* a store that fails and recovers, a collaborator that is unreachable or
\* answers with something that is not JSON
FailRequests ==
    {PlanPost(ClientA, Json([quiz_data |-> Q1])),
     PlanPost(ClientA, Garbage),
     ChatPost(Json([question |-> Hi, career |-> <<"N">>])),
     ChatPost(Garbage)}

FailPlanUpstreams ==
    {Unreachable, Http(200, "OK", Text("<html>")),
     Http(200, "OK", Json([roadmap |-> "R1"]))}

FailChatUpstreams ==
    {Unreachable, Http(200, "OK", Text("<html>")),
     Http(200, "OK", Json([answer |-> "A1"]))}

NextFail ==
    \/ \E s \in Slots, rq \in FailRequests :
          nreq < MaxFailReqs /\ fetch(s, rq)
    \/ \E s \in Slots : handlePlanRequest_cache(s)
    \/ \E s \in Slots, up \in FailPlanUpstreams :
          handlePlanRequest_fetch(s, up, "reject")
    \/ \E s \in Slots, up \in FailChatUpstreams :
          handleChatbotRequest_fetch(s, up, "reject")
    \/ \E task \in BagToSet(bg) : incrementRateLimit_get(task)
    \/ \E task \in BagToSet(bg) : incrementRateLimit_put(task)
    \/ \E task \in BagToSet(bg) : cachePut(task)
    \/ KvFail
    \/ KvRecover

SpecFail == Init /\ [][NextFail]_vars

\* one chat question asked again and again, a backend whose answers vary
CacheChatRequests ==
    {ChatPost(Json([question |-> Hi, career |-> <<"N">>]))}

CacheChatUpstreams ==
    {Http(503, "Service Unavailable", Text("quota exceeded")),
     Http(200, "OK", Json([answer |-> "A1"])),
     Http(200, "OK", Json([response |-> "A2"]))}

NextChatCache ==
    \/ \E s \in Slots, rq \in CacheChatRequests :
          nreq < MaxCacheReqs /\ handleChatbotRequest(s, rq)
    \/ \E s \in Slots, up \in CacheChatUpstreams :
          handleChatbotRequest_fetch(s, up, "reject")
    \/ \E task \in BagToSet(bg) : cachePut(task)
    \/ Tick(ChatCacheTtl)

SpecChatCache == Init /\ [][NextChatCache]_vars

\* the same quiz answers from different clients, at different times, with
\* another member beside quiz_data, with the keys in another order, and
\* different answers
Q1Reordered == << <<"budget", "low">>, <<"career", "Nurse">> >>
Q1HighBudget == << <<"career", "Nurse">>, <<"budget", "high">> >>

KeyRequests ==
    {PlanPost(ClientA, Json([quiz_data |-> Q1])),
     PlanPost(ClientB, Json([quiz_data |-> Q1, session |-> "s1"])),
     PlanPost(ClientA, Json([quiz_data |-> Q1Reordered])),
     PlanPost(ClientB, Json([quiz_data |-> Q1HighBudget]))}

KeyUpstreams == {Http(200, "OK", Json([roadmap |-> "R1"]))}

NextKey ==
    \/ \E s \in Slots, rq \in KeyRequests :
          nreq < MaxKeyReqs /\ handlePlanRequest(s, rq)
    \/ \E s \in Slots : handlePlanRequest_cache(s)
    \/ \E s \in Slots, up \in KeyUpstreams :
          handlePlanRequest_fetch(s, up, "reject")
    \/ \E task \in BagToSet(bg) : incrementRateLimit_get(task)
    \/ \E task \in BagToSet(bg) : incrementRateLimit_put(task)
    \/ \E task \in BagToSet(bg) : cachePut(task)
    \/ Tick(PlanCacheTtl)

SpecKey == Init /\ [][NextKey]_vars

\* the health check beside plan and chat requests, in front of a store that
\* holds entries and may fail, and a collaborator that may be unreachable
HealthRequests ==
    {Req("GET", "/health", ClientA, NoBody),
     PlanPost(ClientA, Json([quiz_data |-> Q1])),
     ChatPost(Json([question |-> Hi, career |-> <<"N">>]))}

HealthPlanUpstreams == {Unreachable, Http(200, "OK", Json([roadmap |-> "R1"]))}

HealthChatUpstreams == {Unreachable, Http(200, "OK", Json([answer |-> "A1"]))}

NextHealth ==
    \/ \E s \in Slots, rq \in HealthRequests :
          nreq < MaxHealthReqs /\ fetch(s, rq)
    \/ \E s \in Slots : handlePlanRequest_cache(s)
    \/ \E s \in Slots, up \in HealthPlanUpstreams :
          handlePlanRequest_fetch(s, up, "reject")
    \/ \E s \in Slots, up \in HealthChatUpstreams :
          handleChatbotRequest_fetch(s, up, "reject")
    \/ \E task \in BagToSet(bg) : incrementRateLimit_get(task)
    \/ \E task \in BagToSet(bg) : incrementRateLimit_put(task)
    \/ \E task \in BagToSet(bg) : cachePut(task)
    \/ KvFail
    \/ KvRecover

SpecHealth == InitRoute /\ [][NextHealth]_vars

\* concurrent requests for one roadmap, a store that works, and a runtime
\* that runs every task registered with ctx.waitUntil to its end
FireUpstreams ==
    {Http(200, "OK", Json([roadmap |-> "R1"])),
     Http(200, "OK", Json([roadmap |-> "R2"]))}

NextFire ==
    \/ \E s \in Slots, rq \in PlanRequests :
          nreq < MaxFireReqs /\ handlePlanRequest(s, rq)
    \/ \E s \in Slots : handlePlanRequest_cache(s)
    \/ \E s \in Slots, up \in FireUpstreams :
          handlePlanRequest_fetch(s, up, "reject")
    \/ \E task \in BagToSet(bg) : incrementRateLimit_get(task)
    \/ \E task \in BagToSet(bg) : incrementRateLimit_put(task)
    \/ \E task \in BagToSet(bg) : cachePut(task)
    \/ Tick(RateLimitTtl)

\* ctx.waitUntil (lines 587-594) keeps the invocation alive until the
\* promise settles: a registered task is not left pending for ever
FairTasks ==
    /\ WF_vars(\E task \in BagToSet(bg) : incrementRateLimit_get(task))
    /\ WF_vars(\E task \in BagToSet(bg) : incrementRateLimit_put(task))
    /\ WF_vars(\E task \in BagToSet(bg) : cachePut(task))

SpecFire == Init /\ [][NextFire]_vars /\ FairTasks

\* chat questions asked in different contexts
ContextRequests ==
    {ChatPost(Json(obj)) :
        obj \in {[question |-> <<"a", "b">>, career |-> <<"c">>],
                 [question |-> <<"a">>, career |-> <<"b", "c">>],
                 [question |-> <<"a", "b">>, path |-> <<"c">>],
                 [question |-> <<"a", "b">>, career |-> <<"d">>]}}

ContextUpstreams ==
    {Http(200, "OK", Json([answer |-> "A1"])),
     Http(200, "OK", Json([answer |-> "A2"]))}

NextContext ==
    \/ \E s \in Slots, rq \in ContextRequests :
          nreq < MaxContextReqs /\ handleChatbotRequest(s, rq)
    \/ \E s \in Slots, up \in ContextUpstreams :
          handleChatbotRequest_fetch(s, up, "reject")
    \/ \E task \in BagToSet(bg) : cachePut(task)
    \/ Tick(ChatCacheTtl)

SpecContext == Init /\ [][NextContext]_vars

\* two clients with a CF-Connecting-IP header and requests without one, in
\* front of a store where the header-less requests are near or at the ceiling
IdentityRequests ==
    {PlanPost(ip, Json([quiz_data |-> Q1])) : ip \in {ClientA, ClientB, Absent}}

IdentityUpstreams == {Http(200, "OK", Json([roadmap |-> "R1"]))}

IdentityRates ==
    {EmptyMap}
    \cup {RateKey("unknown") :> [val |-> toString(n), exp |-> RateLimitTtl] :
            n \in {MaxRequestsPerHour - 1, MaxRequestsPerHour}}

InitIdentity ==
    /\ now = 0
    /\ ticks = 0
    /\ kvOk = TRUE
    /\ rate \in IdentityRates
    /\ cache = EmptyMap
    /\ slots = [s \in Slots |-> Idle]
    /\ bg = EmptyBag
    /\ nreq = 0
    /\ hist = [calls |-> EmptyMap, orderly |-> TRUE]
    /\ widget = ChatWidgetMounted
    /\ page = PageMounted("home", NoItem)

NextIdentity ==
    \/ \E s \in Slots, rq \in IdentityRequests :
          nreq < MaxIdentityReqs /\ handlePlanRequest(s, rq)
    \/ \E s \in Slots : handlePlanRequest_cache(s)
    \/ \E s \in Slots, up \in IdentityUpstreams :
          handlePlanRequest_fetch(s, up, "reject")
    \/ \E task \in BagToSet(bg) : incrementRateLimit_get(task)
    \/ \E task \in BagToSet(bg) : incrementRateLimit_put(task)
    \/ \E task \in BagToSet(bg) : cachePut(task)
    \/ Tick(RateLimitTtl)

SpecIdentity == InitIdentity /\ [][NextIdentity]_vars

\* the ChatWidget: the user types, submits, presses quick replies; every
\* fetch settles in the end
UserMessages ==
    Cardinality({i \in 1..Len(widget.messages) :
                    widget.messages[i].role = "user"})

NextWidget ==
    \/ \E text \in ChatTexts : setInput(text)
    \/ UserMessages < MaxSends /\ handleSendMessage(widget.input)
    \/ \E question \in QuickReplies :
          UserMessages < MaxSends /\ handleQuickReply(question)
    \/ \E i \in 1..Len(widget.pending), outcome \in WidgetOutcomes :
          handleSendMessage_settle(i, outcome)

\* a fetch resolves or rejects: it does not stay pending for ever
FairFetch ==
    WF_vars(\E i \in 1..Len(widget.pending), outcome \in WidgetOutcomes :
               handleSendMessage_settle(i, outcome))

SpecWidget == Init /\ [][NextWidget]_vars /\ FairFetch

\* the quiz pages, with or without a roadmap of an earlier visit in
\* sessionStorage
InitQuiz ==
    /\ now = 0
    /\ ticks = 0
    /\ kvOk = TRUE
    /\ rate = EmptyMap
    /\ cache = EmptyMap
    /\ slots = [s \in Slots |-> Idle]
    /\ bg = EmptyBag
    /\ nreq = 0
    /\ hist = [calls |-> EmptyMap, orderly |-> TRUE]
    /\ widget = ChatWidgetMounted
    /\ page \in {PageMounted(which, stored) :
                    which \in {"home", "quiz"},
                    stored \in {NoItem, JsonStringify("R0")}}

NextQuiz ==
    \/ \E quizData \in {Q1, NoBudget} :
          page.started < MaxSubmits /\ handleQuizSubmit(quizData)
    \/ \E formData \in {Q1, NoBudget} :
          page.started < MaxSubmits /\ handleSubmit(formData)
    \/ \E i \in 1..Len(page.pending), outcome \in QuizOutcomes :
          handleQuizSubmit_settle(i, outcome)
    \/ setTimeout
    \/ setError

SpecQuiz == InitQuiz /\ [][NextQuiz]_vars

----------------------------------------------------------------------------
(* Vocabulary of the properties *)

\* slot s holds a finished /api/plan invocation
PlanDone(s) == slots[s].pc = "done" /\ slots[s].route = "plan"

\* in this step slot s receives a request
Arrives(s) == slots'[s].pc # "idle" /\ slots'[s].arr = nreq + 1

\* the stored, unexpired counter of a client (0 when there is none)
StoredCount(clientIP) ==
    IF RateKey(clientIP) \in DOMAIN rate /\ now < rate[RateKey(clientIP)].exp
    THEN parseInt(rate[RateKey(clientIP)].val)
    ELSE 0

Calls(clientIP) ==
    IF clientIP \in DOMAIN hist.calls THEN hist.calls[clientIP] ELSE 0

Fresh200(r) == r.status = 200 /\ r.body.success /\ ~r.body.cached

ErrorShape(r) ==
    /\ DOMAIN r.body = {"success", "error"}
    /\ r.body.success = FALSE

\* the body is a JSON object whose quiz_data is absent or lacks a non-empty
\* career or a budget
LacksCareerOrBudget(body) ==
    /\ body.t = "object"
    /\ \/ ~Has(body.obj, "quiz_data")
       \/ Member(body.obj.quiz_data, "career") \in {Absent, ""}
       \/ Member(body.obj.quiz_data, "budget") \in {Absent, ""}

----------------------------------------------------------------------------
(* C1: one client sends 11 plan requests inside one hour, each valid, none
   cached yet, one after the other (background writes included), the
   collaborator succeeding each time: requests 1 to 10 are answered 200 with
   cached=false, the 11th is answered 429, and the collaborator is invoked at
   most 10 times. *)
C1_EleventhRejected ==
    (hist.orderly /\ now < RateLimitTtl) =>
        /\ \A s \in Slots :
              PlanDone(s) =>
                 /\ slots[s].arr <= MaxRequestsPerHour
                       => Fresh200(slots[s].resp)
                 /\ slots[s].arr = MaxRequestsPerHour + 1
                       => slots[s].resp.status = 429
        /\ Calls(ClientA) <= MaxRequestsPerHour

C1_Witness ==
    /\ hist.orderly /\ now < RateLimitTtl
    /\ \E s \in Slots :
          /\ PlanDone(s)
          /\ slots[s].arr = MaxRequestsPerHour + 1
          /\ slots[s].resp.status = 429
    /\ Calls(ClientA) = MaxRequestsPerHour

(* C2: in every one-hour window the collaborator is invoked at most 10 times
   on behalf of one client, whatever the requests and their interleaving
   (here: the first hour of the run). *)
C2_CallsBounded ==
    now < RateLimitTtl =>
        \A clientIP \in DOMAIN hist.calls :
            hist.calls[clientIP] <= MaxRequestsPerHour

(* C3: the same valid body is submitted twice within the 7-day retention
   window, the second time after the first was answered 200 with
   cached=false and a roadmap document: the second answer is 200 with cached=true and
   the same roadmap. *)
C3_SecondIsCached ==
    \A a, b \in Slots :
        (/\ PlanDone(a) /\ PlanDone(b)
         /\ slots[a].req = slots[b].req
         /\ Fresh200(slots[a].resp) /\ Has(slots[a].resp.body, "roadmap")
         /\ slots[a].resp.body.roadmap # "null"
         /\ slots[b].arr > slots[a].fin
         /\ slots[b].finAt < slots[a].finAt + PlanCacheTtl) =>
              /\ slots[b].resp.status = 200
              /\ slots[b].resp.body.cached
              /\ Has(slots[b].resp.body, "roadmap")
              /\ slots[b].resp.body.roadmap = slots[a].resp.body.roadmap

(* C4: once a plan request has been answered 200, a later request with the
   same quiz_data arriving within the retention window invokes no
   collaborator and receives the stored document; and within one retention
   window no two requests with the same fingerprint both invoke the
   collaborator. *)
C4_OncePerFingerprint ==
    \A a, b \in Slots :
        (/\ a # b
         /\ slots[a].pc # "idle" /\ slots[b].pc # "idle"
         /\ slots[a].route = "plan" /\ slots[b].route = "plan"
         /\ QuizOf(slots[a].req.body) = QuizOf(slots[b].req.body)
         /\ now < PlanCacheTtl) =>
              /\ ~(slots[a].up # NoCall /\ slots[b].up # NoCall)
              /\ (/\ PlanDone(a) /\ slots[a].resp.status = 200
                  /\ slots[b].arr > slots[a].fin /\ PlanDone(b)) =>
                       /\ slots[b].up = NoCall
                       /\ slots[b].resp.status = 200
                       /\ slots[b].resp.body.cached

(* C5 as stated: a plan request whose quiz_data is absent or lacks a
   non-empty career or a budget is answered 400 {success:false, error} in
   every state of the store, and the collaborator is not invoked for it. *)
C5_Original ==
    \A s \in Slots :
        (PlanDone(s) /\ LacksCareerOrBudget(slots[s].req.body)) =>
            /\ slots[s].resp.status = 400
            /\ ErrorShape(slots[s].resp)
            /\ slots[s].up = NoCall

(* C5 amended: such a request never invokes the collaborator; while the
   rate-limit store can be read it is answered 400 {success:false, error}
   when the client's counter is below 10 and 429 {success:false, error} when
   the counter is 10 or more. *)
C5_Amended ==
    [][\A s \in Slots :
          (Arrives(s) /\ slots'[s].route = "plan" /\ kvOk
             /\ LacksCareerOrBudget(slots'[s].req.body)) =>
                /\ slots'[s].pc = "done"
                /\ slots'[s].up = NoCall
                /\ hist'.calls = hist.calls
                /\ ErrorShape(slots'[s].resp)
                /\ slots'[s].resp.status =
                      IF StoredCount(slots'[s].ip) >= MaxRequestsPerHour
                      THEN 429 ELSE 400]_vars

C5_Witness ==
    \E s \in Slots :
        /\ PlanDone(s) /\ LacksCareerOrBudget(slots[s].req.body)
        /\ slots[s].resp.status = 429
        /\ StoredCount(slots[s].ip) >= MaxRequestsPerHour

(* C6: a plan request of a client whose stored counter is 10 or more is
   answered 429 {success:false, error}; the handler calls no collaborator and
   schedules no write, and both KV namespaces are left as they were, also when
   the requested roadmap is cached. *)
C6_RateLimitedTouchesNothing ==
    [][\A s \in Slots :
          (Arrives(s) /\ slots'[s].route = "plan" /\ kvOk
             /\ StoredCount(slots'[s].ip) >= MaxRequestsPerHour) =>
                /\ slots'[s].pc = "done"
                /\ slots'[s].resp.status = 429
                /\ ErrorShape(slots'[s].resp)
                /\ slots'[s].up = NoCall
                /\ hist'.calls = hist.calls
                /\ rate' = rate /\ cache' = cache /\ bg' = bg]_vars

C6_Witness ==
    \E s \in Slots :
        /\ PlanDone(s) /\ slots[s].resp.status = 429
        /\ slots[s].req.body.t = "object"
        /\ ~InvalidQuizData(QuizOf(slots[s].req.body))
        /\ KvGet(cache, PlanCacheKey(QuizOf(slots[s].req.body))) # KvNull
        /\ StoredCount(slots[s].ip) >= MaxRequestsPerHour

(* C7: when the collaborator answers the cache-miss call of a plan request
   with a status outside 200..299, the handler responds 500
   {success:false, error}; the step schedules no write and leaves cache and
   counter as they were, so a cache key absent before is absent after. *)
C7_NonSuccessWritesNothing ==
    [][\A s \in Slots :
          (/\ slots[s].pc = "fetch" /\ slots[s].route = "plan"
           /\ slots'[s].pc = "done"
           /\ slots'[s].up.kind = "http"
           /\ (slots'[s].up.status < 200 \/ slots'[s].up.status > 299)) =>
                /\ slots'[s].resp.status = 500
                /\ ErrorShape(slots'[s].resp)
                /\ rate' = rate /\ cache' = cache /\ bg' = bg
                /\ KvGet(cache, slots[s].key) = KvNull
                      => KvGet(cache', slots[s].key) = KvNull]_vars

C7_Witness ==
    \E s \in Slots :
        /\ PlanDone(s)
        /\ slots[s].up.kind = "http" /\ slots[s].up.status = 503
        /\ slots[s].resp.status = 500
        /\ KvGet(cache, slots[s].key) = KvNull
        /\ StoredCount(slots[s].ip) = 0
        /\ bg = EmptyBag

\* a collaborator answer that is a failure: unreachable, a status outside
\* 200..299, a body that is not a JSON object, or JSON without a roadmap
\* document
CollaboratorFailed(up) ==
    \/ up.kind = "unreachable"
    \/ /\ up.kind = "http"
       /\ \/ up.status < 200 \/ up.status > 299
          \/ up.body.t # "object"
          \/ ~Has(up.body.obj, "roadmap")
          \/ up.body.obj.roadmap = "null"

(* C8: whenever the collaborator call of a plan request fails (unreachable,
   non-success status, success status with a body that is not JSON or has no
   roadmap document) the handler answers 500 with success=false and
   schedules no cache write. *)
C8_EveryFailureIs500 ==
    [][\A s \in Slots :
          (/\ slots[s].pc = "fetch" /\ slots[s].route = "plan"
           /\ slots'[s].pc = "done"
           /\ CollaboratorFailed(slots'[s].up)) =>
                /\ slots'[s].resp.status = 500
                /\ slots'[s].resp.body.success = FALSE
                /\ cache' = cache
                /\ \A task \in BagToSet(bg') :
                      task.ns = "cache" => BagIn(task, bg)]_vars

\* two collaborator failures that differ at most in the error body and the
\* status text
SameFailureKind(u, v) ==
    /\ u.kind = v.kind
    /\ u.kind = "http" =>
          /\ u.status = v.status
          /\ (u.status < 200 \/ u.status > 299)
                \/ (u.body.t # "object" /\ v.body.t # "object")

(* C9: two invocations of the same endpoint (/api/plan, /api/chatbot) with
   the same request, whose collaborator calls fail and differ only in the
   error body or status text, return the same response: status, headers and
   body. *)
C9_NoUpstreamDetail ==
    \A a, b \in Slots :
        (/\ slots[a].pc = "done" /\ slots[b].pc = "done"
         /\ slots[a].route = slots[b].route
         /\ slots[a].req = slots[b].req
         /\ slots[a].up # NoCall /\ slots[b].up # NoCall
         /\ SameFailureKind(slots[a].up, slots[b].up)) =>
              slots[a].resp = slots[b].resp

(* C10: a plan request whose cache lookup finds an unexpired entry for its
   fingerprint is answered 200 with the stored document and cached=true; the
   step invokes no collaborator, schedules no write and leaves counter and
   cache entries (value and expiry) as they were. *)
C10_CacheHitChangesNothing ==
    [][\A s \in Slots :
          (/\ slots[s].pc = "cache" /\ slots[s].route = "plan"
           /\ slots'[s] # slots[s] /\ kvOk
           /\ slots[s].key \in DOMAIN cache
           /\ now < cache[slots[s].key].exp) =>
                /\ slots'[s].pc = "done"
                /\ slots'[s].resp.status = 200
                /\ slots'[s].resp.body =
                      [success |-> TRUE,
                       roadmap |-> cache[slots[s].key].val[2],
                       cached |-> TRUE]
                /\ slots'[s].up = NoCall
                /\ hist'.calls = hist.calls
                /\ rate' = rate /\ cache' = cache /\ bg' = bg]_vars

\* the tasks of namespace ns that this step registers
Registered(ns, t) ==
    LET added == bg' (-) bg
        of == {task \in BagToSet(added) : task.ns = ns /\ task.t = t}
    IN  IF of = {} THEN 0
        ELSE BagCardinality([task \in of |-> CopiesIn(task, added)])

(* C11: a step of a plan handler invokes the collaborator at most once and
   only from the fetch position, which ends the invocation (no retry); the
   handler writes to the store only through background tasks, registers at
   most one cache put and one counter increment, and registers them only
   when it answers 200 with cached=false.  A background step registers
   nothing new beyond the continuation of the task it runs, and a store
   write consumes one task. *)
C11_SideEffectBound ==
    [][/\ \A s \in Slots :
            (slots'[s] # slots[s] /\ slots'[s].route = "plan") =>
                /\ Registered("cache", "put") <= 1
                /\ Registered("rate", "inc") <= 1
                /\ Registered("rate", "put") = 0
                /\ bg (-) bg' = EmptyBag
                /\ bg' # bg =>
                      slots'[s].pc = "done" /\ Fresh200(slots'[s].resp)
                /\ rate' = rate /\ cache' = cache
                /\ \A ip \in DOMAIN hist'.calls :
                      hist'.calls[ip] <= Calls(ip) + 1
                /\ hist'.calls # hist.calls =>
                      slots[s].pc = "fetch" /\ slots'[s].up # NoCall
                /\ slots[s].pc = "fetch" => slots'[s].pc = "done"
       /\ slots' = slots =>
            /\ hist'.calls = hist.calls
            /\ BagCardinality(bg') <= BagCardinality(bg)
            /\ (now' = now /\ (cache' # cache \/ rate' # rate)) =>
                  BagCardinality(bg') = BagCardinality(bg) - 1]_vars

C11_Witness ==
    /\ \E s \in Slots :
          /\ PlanDone(s) /\ Fresh200(slots[s].resp)
          /\ KvGet(cache, slots[s].key) # KvNull
          /\ StoredCount(slots[s].ip) = 1
          /\ Calls(slots[s].ip) = 1
    /\ bg = EmptyBag /\ nreq = 1

CorsHeaderNames ==
    {"Access-Control-Allow-Origin", "Access-Control-Allow-Methods",
     "Access-Control-Allow-Headers"}

(* C13: every response the worker has produced, for every route and every
   outcome, carries the three CORS headers. *)
C13_EveryResponseHasCors ==
    \A s \in Slots :
        (slots[s].pc = "done" /\ slots[s].route # "next") =>
            CorsHeaderNames \subseteq DOMAIN slots[s].resp.headers

(* C16: a step of a /api/chatbot handler leaves every rate-limit counter as
   it was and registers no counter task, and the handler never answers 429,
   whatever the requesting client's counter is. *)
C16_ChatIsNotRateLimited ==
    [][\A s \in Slots :
          (slots'[s] # slots[s] /\ slots'[s].route = "chat") =>
              /\ rate' = rate
              /\ \A task \in BagToSet(bg') :
                    task.ns = "rate" => CopiesIn(task, bg') = CopiesIn(task, bg)
              /\ slots'[s].pc = "done" =>
                    slots'[s].resp.status \in {200, 400, 500}]_vars

C16_Witness ==
    \E s \in Slots :
        /\ slots[s].pc = "done" /\ slots[s].route = "chat"
        /\ slots[s].resp.status = 200
        /\ slots[s].up # NoCall
        /\ StoredCount(slots[s].ip) >= MaxRequestsPerHour

(* C20: an OPTIONS request, to any path, from any client and in any state of
   the store, is answered at once with 204, no body and the three CORS
   headers; handling it changes neither namespace, registers no task and
   calls no collaborator. *)
C20_PreflightTouchesNothing ==
    [][\A s \in Slots :
          (Arrives(s) /\ slots'[s].req.method = "OPTIONS") =>
              /\ slots'[s].pc = "done"
              /\ slots'[s].resp.status = 204
              /\ slots'[s].resp.body = NoBody
              /\ CorsHeaderNames \subseteq DOMAIN slots'[s].resp.headers
              /\ slots'[s].resp.headers["Access-Control-Allow-Origin"] = "*"
              /\ slots'[s].up = NoCall
              /\ rate' = rate /\ cache' = cache /\ bg' = bg
              /\ hist'.calls = hist.calls]_vars

C20_Witness ==
    \E s \in Slots :
        /\ slots[s].pc = "done" /\ slots[s].req.method = "OPTIONS"
        /\ slots[s].req.path = "/api/plan"
        /\ slots[s].resp.status = 204
        /\ StoredCount(slots[s].ip) >= MaxRequestsPerHour
        /\ cache # EmptyMap

(* C12: the rate limit is a fixed window: an increment of a counter that has
   not expired leaves its expiry where the first counted request of the
   window put it. *)
C12_FixedWindow ==
    [][\A k \in DOMAIN rate :
          (k \in DOMAIN rate' /\ now < rate[k].exp /\ now' = now) =>
              rate'[k].exp = rate[k].exp]_vars

(* C14: a plan request whose body is not valid JSON is answered 400
   {success:false, error}, and the collaborator is not contacted for it. *)
C14_MalformedIs400 ==
    \A s \in Slots :
        (PlanDone(s) /\ slots[s].req.body.t = "text") =>
            /\ slots[s].resp.status = 400
            /\ ErrorShape(slots[s].resp)
            /\ slots[s].up = NoCall

\* this step of the handler in slot s raises an exception: a store read
\* rejects, the request body or the collaborator's body does not parse, or
\* the collaborator cannot be reached
Raises(s) ==
    \/ /\ Arrives(s) /\ slots'[s].route = "plan"
       /\ \/ ~kvOk
          \/ /\ StoredCount(slots'[s].ip) < MaxRequestsPerHour
             /\ slots'[s].req.body.t # "object"
    \/ /\ Arrives(s) /\ slots'[s].route = "chat"
       /\ \/ slots'[s].req.body.t # "object"
          \/ ~kvOk /\ ~NoQuestion(slots'[s].req.body.obj)
    \/ /\ slots[s].pc = "cache" /\ slots'[s] # slots[s] /\ ~kvOk
    \/ /\ slots[s].pc = "fetch" /\ slots'[s] # slots[s]
       /\ \/ slots'[s].up.kind = "unreachable"
          \/ /\ slots'[s].up.kind = "http"
             /\ slots'[s].up.status >= 200 /\ slots'[s].up.status <= 299
             /\ slots'[s].up.body.t # "object"

(* C15: a step of a /api/plan or /api/chatbot handler in which an exception
   is raised (store read failure, unparsable request or collaborator body,
   collaborator unreachable) ends the invocation with 500
   {success:false, error:'Internal server error'} and the CORS headers; every
   invocation that has ended has a response. *)
C15_ExceptionsBecome500 ==
    [][\A s \in Slots :
          /\ Raises(s) =>
                /\ slots'[s].pc = "done"
                /\ slots'[s].resp.status = 500
                /\ slots'[s].resp.body =
                      [success |-> FALSE, error |-> "Internal server error"]
                /\ CorsHeaderNames \subseteq DOMAIN slots'[s].resp.headers
          /\ slots'[s].pc = "done" =>
                slots'[s].resp.status \in {200, 400, 429, 500}]_vars

\* a request failed on the store, and the next one was served
C15_Witness ==
    \E a, b \in Slots :
        /\ slots[a].pc = "done" /\ slots[b].pc = "done"
        /\ slots[a].route = "plan" /\ slots[a].up = NoCall
        /\ slots[a].req.body.t = "object"
        /\ slots[a].resp.status = 500
        /\ slots[b].arr > slots[a].fin
        /\ slots[b].resp.status = 200

\* a cache put for key is still pending
PutPending(key) ==
    \E task \in BagToSet(bg) : task.ns = "cache" /\ task.key = key

(* C17: once a chat request was answered 200 with cached=false and its
   background write has completed, an identical request arriving within one
   hour is answered 200 with the same answer and cached=true without a
   backend call; an answer is served from the cache only while its entry is
   less than one hour old; a backend answer with a non-success status gives
   500 and stores nothing. *)
C17_ChatCacheServes ==
    [][/\ \A c, d \in Slots :
            (/\ c # d /\ Arrives(d) /\ slots'[d].route = "chat"
             /\ slots[c].pc = "done" /\ slots[c].route = "chat"
             /\ slots[c].req = slots'[d].req
             /\ slots[c].resp.status = 200 /\ ~slots[c].resp.body.cached
             /\ Has(slots[c].resp.body, "answer")
             /\ ~PutPending(slots[c].key)
             /\ now < slots[c].finAt + ChatCacheTtl) =>
                  /\ slots'[d].pc = "done"
                  /\ slots'[d].up = NoCall
                  /\ slots'[d].resp.status = 200
                  /\ slots'[d].resp.body.cached
                  /\ slots'[d].resp.body.answer = slots[c].resp.body.answer
       /\ \A s \in Slots :
            /\ (/\ Arrives(s) /\ slots'[s].route = "chat"
                /\ slots'[s].pc = "done" /\ slots'[s].resp.status = 200) =>
                     /\ slots'[s].key \in DOMAIN cache
                     /\ now < cache[slots'[s].key].exp
            /\ (/\ slots[s].pc = "fetch" /\ slots[s].route = "chat"
                /\ slots'[s].pc = "done" /\ slots'[s].up.kind = "http"
                /\ (slots'[s].up.status < 200 \/ slots'[s].up.status > 299)) =>
                     /\ slots'[s].resp.status = 500
                     /\ cache' = cache /\ bg' = bg]_vars

\* slot s holds a plan invocation that has computed its cache key
Keyed(s) ==
    /\ slots[s].pc \in {"cache", "fetch", "done"}
    /\ slots[s].route = "plan"
    /\ slots[s].key # <<>>

\* the quiz_data of the request in slot s, as the client wrote it
QuizData(s) == slots[s].req.body.obj.quiz_data

(* C18: two plan requests address the same cache slot exactly when their
   quiz_data are identical, whatever their client identities, the times they
   arrive, the contents of the store and the other members of their
   bodies. *)
C18_KeyOfQuizDataAlone ==
    \A a, b \in Slots :
        (Keyed(a) /\ Keyed(b)) =>
            (slots[a].key = slots[b].key <=> QuizData(a) = QuizData(b))

C18_Witness ==
    \E a, b \in Slots :
        /\ Keyed(a) /\ Keyed(b)
        /\ slots[a].pc = "done" /\ slots[b].pc = "done"
        /\ slots[a].key = slots[b].key
        /\ slots[a].ip # slots[b].ip
        /\ slots[a].req.body # slots[b].req.body
        /\ slots[a].finAt # slots[b].finAt
        /\ slots[a].resp.body.cached # slots[b].resp.body.cached

\* equal as JSON values: the same members, in whatever order
SameJsonValue(q, r) ==
    /\ Len(q) = Len(r)
    /\ {q[i] : i \in 1..Len(q)} = {r[i] : i \in 1..Len(r)}

(* C19 as stated: two plan requests whose quiz_data are equal as JSON values
   and differ only in the order of their keys have the same cache
   fingerprint. *)
C19_Original ==
    \A a, b \in Slots :
        (Keyed(a) /\ Keyed(b) /\ SameJsonValue(QuizData(a), QuizData(b))) =>
            slots[a].key = slots[b].key

(* C19 amended: two plan requests whose quiz_data are equal as JSON values
   but list their keys in a different order have different cache
   fingerprints, and a request answered from the cache is answered from the
   entry under its own fingerprint. *)
C19_Amended ==
    /\ \A a, b \in Slots :
          (/\ Keyed(a) /\ Keyed(b)
           /\ SameJsonValue(QuizData(a), QuizData(b))
           /\ QuizData(a) # QuizData(b)) =>
                slots[a].key # slots[b].key
    /\ \A s \in Slots :
          (/\ Keyed(s) /\ slots[s].pc = "done"
           /\ slots[s].resp.status = 200 /\ slots[s].resp.body.cached
           /\ slots[s].finAt = now) =>
                /\ slots[s].key = PlanCacheKey(QuizData(s))
                /\ slots[s].key \in DOMAIN cache

\* the second request found the entry of the first of no use
C19_Witness ==
    \E a, b \in Slots :
        /\ Keyed(a) /\ Keyed(b)
        /\ slots[a].pc = "done" /\ slots[b].pc = "done"
        /\ SameJsonValue(QuizData(a), QuizData(b))
        /\ QuizData(a) # QuizData(b)
        /\ Fresh200(slots[a].resp) /\ Fresh200(slots[b].resp)
        /\ slots[b].arr > slots[a].fin
        /\ slots[b].up # NoCall
        /\ {slots[a].key, slots[b].key} \subseteq DOMAIN cache
        /\ bg = EmptyBag

(* C21: GET /health is answered at once with 200, status "healthy" and a
   version string, whether or not the store works, whatever it holds and
   whatever the collaborator does; the step reads and writes no namespace,
   registers no task and calls no collaborator. *)
C21_HealthAlwaysHealthy ==
    [][\A s \in Slots :
          (/\ Arrives(s)
           /\ slots'[s].req.method = "GET"
           /\ slots'[s].req.path = "/health") =>
                /\ slots'[s].pc = "done"
                /\ slots'[s].resp.status = 200
                /\ slots'[s].resp.body.status = "healthy"
                /\ slots'[s].resp.body.version = "1.0.0"
                /\ slots'[s].up = NoCall
                /\ hist'.calls = hist.calls
                /\ rate' = rate /\ cache' = cache /\ bg' = bg]_vars

\* healthy while the store is down, holds a counter at the ceiling, and the
\* collaborator has just been unreachable
C21_Witness ==
    \E a, b \in Slots :
        /\ slots[a].pc = "done" /\ slots[a].route = "health"
        /\ slots[a].resp.status = 200
        /\ slots[a].resp.body.status = "healthy"
        /\ ~kvOk
        /\ slots[a].finAt = now /\ slots[a].fin = nreq
        /\ RateKey(ClientA) \in DOMAIN rate
        /\ slots[b].pc = "done" /\ slots[b].up = Unreachable
        /\ slots[b].fin < slots[a].arr

\* the body of a failure: {success: false, error: <string>}
FailureBody(body) ==
    /\ DOMAIN body = {"success", "error"}
    /\ body.success = FALSE

\* the body of a success: success, cached and the document under `member`
SuccessBody(body, member) ==
    /\ DOMAIN body = {"success", "cached", member}
    /\ body.success = TRUE
    /\ body.cached \in BOOLEAN
    /\ body[member] \notin {Absent, "null", ""}

(* C22: every /api/plan response has a status in {200, 400, 429, 500} and
   every /api/chatbot response of the worker one in {200, 400, 500}; with
   200 the body is {success: true, roadmap (or answer), cached}, with any
   other status it is {success: false, error}. *)
C22_ResponseShape ==
    \A s \in Slots :
        (slots[s].pc = "done" /\ slots[s].route \in {"plan", "chat"}) =>
            LET r == slots[s].resp
                member == IF slots[s].route = "plan" THEN "roadmap"
                          ELSE "answer"
            IN  /\ r.status \in (IF slots[s].route = "plan"
                                 THEN {200, 400, 429, 500}
                                 ELSE {200, 400, 500})
                /\ r.status = 200 => SuccessBody(r.body, member)
                /\ r.status # 200 => FailureBody(r.body)

\* a counter increment of the client is registered and has not written yet
IncPending(clientIP) ==
    \E task \in BagToSet(bg) : task.ns = "rate" /\ task.key = RateKey(clientIP)

(* C23: the step that answers a plan cache miss 200 with the collaborator's
   roadmap changes neither namespace: it registers the cache write of that
   roadmap under the request's fingerprint and the increment of the client's
   counter.  With the registered tasks run fairly and the store working,
   the cache comes to hold the roadmap under the fingerprint, and the
   increments of the client come to an end with the counter written. *)
C23_FireAndForget ==
    /\ [][\A s \in Slots :
            (/\ slots[s].pc = "fetch" /\ slots[s].route = "plan"
             /\ slots'[s].pc = "done"
             /\ slots'[s].resp.status = 200
             /\ Has(slots'[s].resp.body, "roadmap")) =>
                  /\ rate' = rate /\ cache' = cache
                  /\ BagIn(PutTask("cache", slots[s].key,
                                   JsonStringify(slots'[s].resp.body.roadmap),
                                   PlanCacheTtl), bg')
                  /\ BagIn(IncTask(slots[s].ip), bg')]_vars
    /\ \A roadmap \in {"R1", "R2"} :
          BagIn(PutTask("cache", PlanCacheKey(Q1), JsonStringify(roadmap),
                        PlanCacheTtl), bg)
             ~> (KvGet(cache, PlanCacheKey(Q1)) = JsonStringify(roadmap))
    /\ IncPending(ClientA)
          ~> (~IncPending(ClientA) /\ StoredCount(ClientA) >= 1)

\* the response is out, neither write has taken effect
C23_Witness ==
    \E s \in Slots :
        /\ PlanDone(s) /\ Fresh200(slots[s].resp)
        /\ slots[s].resp.body.roadmap = "R1"
        /\ KvGet(cache, slots[s].key) = KvNull
        /\ StoredCount(slots[s].ip) = 0
        /\ BagIn(IncTask(slots[s].ip), bg)
        /\ BagIn(PutTask("cache", slots[s].key, JsonStringify("R1"),
                         PlanCacheTtl), bg)

(* C24: in the first window, once every registered write has completed, the
   counter of a client equals the number of its plan requests answered 200
   with cached=false (each of them one successful collaborator call), under
   every interleaving of requests and background steps. *)
C24_NoIncrementLost ==
    (/\ bg = EmptyBag
     /\ now < RateLimitTtl
     /\ \A s \in Slots : slots[s].pc \in {"idle", "done"}) =>
          StoredCount(ClientA) = Calls(ClientA)

\* the cache writes registered for `key` and not yet in the store
PendingPuts(key) ==
    {task \in BagToSet(bg) : task.ns = "cache" /\ task.key = key}

\* every request that is not in slot s was answered before the request in
\* slot s arrived: the client sends one request at a time
OneAtATime(s) ==
    \A o \in Slots \ {s} :
        \/ slots[o].pc = "idle"
        \/ slots[o].pc = "done" /\ slots[o].fin < slots[s].arr

(* C25: for a client that sends each request after the answer to the one
   before, the fire-and-forget handler answers as the handler that awaits
   its writes would.  The awaiting handler has stored the roadmap of every
   answered request before the next request arrives, so the cache lookup of
   a request whose roadmap was registered for writing by an earlier answer
   is a hit: 200, cached=true, with a registered or stored roadmap. *)
C25_AwaitEquivalent ==
    [][\A s \in Slots :
          (/\ slots[s].pc = "cache" /\ slots[s].route = "plan"
           /\ slots'[s] # slots[s]
           /\ kvOk /\ now = 0
           /\ OneAtATime(s)
           /\ PendingPuts(slots[s].key) # {}
           /\ \A task \in PendingPuts(slots[s].key) :
                 JsonParses(task.val) /\ Truthy(JsonParse(task.val))) =>
                /\ slots'[s].pc = "done"
                /\ slots'[s].resp.status = 200
                /\ slots'[s].resp.body.cached
                /\ \/ \E task \in PendingPuts(slots[s].key) :
                         slots'[s].resp.body.roadmap = JsonParse(task.val)
                   \/ /\ KvGet(cache, slots[s].key) # KvNull
                      /\ slots'[s].resp.body.roadmap =
                            JsonParse(KvGet(cache, slots[s].key))]_vars

(* C26: in every reachable state the stored rate-limit counter of every
   client is an integer from 1 to 10. *)
C26_CounterWithinCeiling ==
    \A key \in DOMAIN rate :
        /\ parseInt(rate[key].val) >= 1
        /\ parseInt(rate[key].val) <= MaxRequestsPerHour

\* the context of a chat request: question, career and path, an absent
\* career or path being the empty text
Context(obj) == <<obj.question, OrEmpty(obj, "career"), OrEmpty(obj, "path")>>

\* slot s holds a chat invocation that has computed its cache key
ChatKeyed(s) ==
    /\ slots[s].pc \in {"fetch", "done"}
    /\ slots[s].route = "chat"
    /\ slots[s].key # <<>>

(* C27: two chat requests whose (question, career, path) differ address
   different cache slots (so neither is served the other's answer). *)
C27_ContextsSeparated ==
    \A a, b \in Slots :
        (/\ ChatKeyed(a) /\ ChatKeyed(b)
         /\ Context(slots[a].req.body.obj) # Context(slots[b].req.body.obj)) =>
              slots[a].key # slots[b].key

\* the identity the claim gives a request: its CF-Connecting-IP header, or
\* 'unknown' without one
HeaderOrUnknown(rq) == IF rq.ip = Absent THEN "unknown" ELSE rq.ip

\* the counters (value and expiry) that differ between rate and rate'
CountersChanged ==
    {key \in DOMAIN rate \cup DOMAIN rate' :
        \/ key \notin DOMAIN rate \/ key \notin DOMAIN rate'
        \/ rate[key] # rate'[key]}

(* C28: a plan request is answered 429 exactly when the counter of its own
   identity (its CF-Connecting-IP header, 'unknown' without one) is at 10 or
   more and unexpired; the increment it registers is for that identity, and
   while time stands still a counter changes only when an increment
   registered for its identity writes.  So no client changes another
   client's counter or causes its 429, and the header-less requests share
   the counter of 'unknown'. *)
C28_IdentityIsolation ==
    [][/\ \A s \in Slots :
            (Arrives(s) /\ slots'[s].route = "plan") =>
                /\ slots'[s].ip = HeaderOrUnknown(slots'[s].req)
                /\ (slots'[s].pc = "done" /\ slots'[s].resp.status = 429)
                      <=> StoredCount(HeaderOrUnknown(slots'[s].req))
                              >= MaxRequestsPerHour
       /\ \A s \in Slots :
            (slots[s].pc = "fetch" /\ slots'[s].pc = "done") =>
                \A task \in BagToSet(bg') :
                    (task.ns = "rate" /\ ~BagIn(task, bg)) =>
                        task.key = RateKey(HeaderOrUnknown(slots[s].req))
       /\ now' = now =>
            \A key \in CountersChanged :
                \E task \in BagToSet(bg) :
                    /\ task.t = "put" /\ task.ns = "rate" /\ task.key = key
                    /\ CopiesIn(task, bg') < CopiesIn(task, bg)
       /\ \A task \in BagToSet(bg') :
            (task.ns = "rate" /\ task.t = "put" /\ ~BagIn(task, bg)) =>
                \E inc \in BagToSet(bg) :
                    /\ inc.t = "inc" /\ inc.key = task.key
                    /\ CopiesIn(inc, bg') < CopiesIn(inc, bg)]_vars

\* ten counted header-less requests: the next header-less request is
\* rejected, a client with a header is served, and its counter is its own
C28_Witness ==
    \E a, b \in Slots :
        /\ PlanDone(a) /\ slots[a].req.ip = Absent
        /\ slots[a].resp.status = 429
        /\ StoredCount("unknown") = MaxRequestsPerHour
        /\ PlanDone(b) /\ slots[b].req.ip = ClientA
        /\ slots[b].arr > slots[a].fin
        /\ Fresh200(slots[b].resp)
        /\ StoredCount(ClientA) = 1
        /\ bg = EmptyBag

\* the last message of the widget
LastMessage == widget.messages[Len(widget.messages)]

\* after the greeting, user and assistant messages alternate
Alternates ==
    /\ widget.messages[1] = Greeting
    /\ \A i \in 2..Len(widget.messages) :
          widget.messages[i].role = IF i % 2 = 0 THEN "user" ELSE "assistant"

(* C29: handleSendMessage accepts a text, appending the user message and
   sending the request, only when the text is not blank and no request is in
   flight; at most one request is in flight; isLoading is true exactly while
   a request is in flight, whether the request succeeds or throws; every
   user message is followed by exactly one assistant message, and the
   message that is still unanswered is eventually answered. *)
C29_SendProtocol ==
    /\ [][(\/ Len(widget'.pending) > Len(widget.pending)
           \/ Len(widget'.messages) > Len(widget.messages)
                /\ widget'.messages[Len(widget'.messages)].role = "user") =>
              /\ ~widget.isLoading
              /\ widget.pending = <<>>
              /\ Len(widget'.pending) = 1
              /\ Len(Trim(widget'.pending[1])) > 0
              /\ widget'.messages =
                    Append(widget.messages,
                           Message("user", widget'.pending[1]))]_vars
    /\ [](/\ Len(widget.pending) <= 1
          /\ widget.isLoading <=> Len(widget.pending) = 1
          /\ Alternates
          /\ LastMessage.role = "user" <=> widget.isLoading)
    /\ widget.isLoading ~> ~widget.isLoading
    /\ \A n \in 1..(2 * MaxSends + 1) :
          (Len(widget.messages) = n /\ LastMessage.role = "user")
             ~> (/\ Len(widget.messages) = n + 1
                 /\ LastMessage.role = "assistant"
                 /\ ~widget.isLoading)

\* one request that threw and one that was answered
C29_Witness ==
    /\ Len(widget.messages) = 5
    /\ widget.messages[2] = Message("user", <<"a">>)
    /\ widget.messages[3] = Message("assistant", ChatErrorText)
    /\ widget.messages[4].role = "user"
    /\ widget.messages[5] = Message("assistant", "A1")
    /\ ~widget.isLoading
    /\ widget.pending = <<>>

\* the response status is ok and the body has success = true
OkAndSuccess(outcome) ==
    /\ outcome.kind = "http" /\ UpOk(outcome)
    /\ outcome.body.t = "object"
    /\ Has(outcome.body.obj, "success")
    /\ outcome.body.obj.success = TRUE

\* in this step a submission's fetch settles
Settles == Len(page'.pending) < Len(page.pending)

(* C30: sessionStorage changes and the page navigates to /roadmap only after
   a response with an ok status and success=true, and at the navigation
   sessionStorage holds the roadmap of that response; when the fetch settles
   with any other outcome, sessionStorage, the route and the timer are left
   alone, an error message is set and loading is false; a submission starts
   only while loading is false, so at most one is in flight. *)
C30_SubmitStateMachine ==
    [][/\ page'.storage # page.storage =>
             Settles /\ OkAndSuccess(page'.resp)
       /\ (page'.route # page.route \/ page'.timers > page.timers) =>
             /\ OkAndSuccess(page'.resp)
             /\ page'.storage = JsonStringify(page'.resp.body.obj.roadmap)
             /\ page'.route # page.route => page'.route = "/roadmap"
       /\ (Settles /\ ~OkAndSuccess(page'.resp)) =>
             /\ page'.storage = page.storage
             /\ page'.route = page.route
             /\ page'.timers = page.timers
             /\ page'.error # ""
             /\ ~page'.loading
       /\ page'.started > page.started =>
             /\ ~page.loading
             /\ page.pending = <<>>
             /\ page'.loading
       /\ Len(page'.pending) <= 1]_vars

\* a failed submission, then one that stored the roadmap and navigated
C30_Witness ==
    /\ page.which = "quiz"
    /\ page.started = 2
    /\ page.route = "/roadmap"
    /\ page.storage = JsonStringify("R1")
    /\ OkAndSuccess(page.resp)
    /\ page.loading
    /\ page.pending = <<>>

====
